---- MODULE Spec2Model ----
(***************************************************************************)
(* Model of the query-answering pipeline of the chatbot                    *)
(* (src/dlai/backend/modern_chatbot.py): SessionMemory, SemanticCache,     *)
(* BusinessIntelligence and ModernDataChatbot.ask.                         *)
(*                                                                         *)
(* Text is modelled by TLA+ strings (Len, SubSeq and \o act on them).      *)
(* Floats are exact rationals: a confidence is a percentage (10 = 0.1), a  *)
(* cosine similarity is the pair [d, n] standing for d / sqrt(n), and a    *)
(* threshold p/q is [d |-> p, n |-> q*q].  An embedding is a vector of     *)
(* two integers.                                                           *)
(***************************************************************************)
EXTENDS Integers, Sequences, FiniteSets, TLC

VARIABLES
    similarity_threshold,  \* SemanticCache.similarity_threshold
    max_turns,             \* SessionMemory.max_turns
    cache,                 \* SemanticCache.cache: entries in insertion order
    sessions,              \* SessionMemory.sessions: session id -> turns
    pc,                    \* position of the current ask call
    question,              \* ask: question
    session_id,            \* ask: session_id (after the uuid default)
    validation,            \* ask: validation (line 640)
    sql_query,             \* ask: sql_query (SQLQuery)
    results,               \* ask: results
    insights,              \* ask: insights (DataInsight)
    response,              \* ask: the returned dict
    steps,                 \* history: the steps the current ask has taken
    calls,                 \* history: the external calls the current ask has made
    unanswerable,          \* history: the question refers to a topic absent from the session
    asks,                  \* history: number of ask calls started
    asked,                 \* history: how often each question was asked
    faults,                \* history: number of external failures so far
    added,                 \* history: every turn ever passed to add_turn, per session
    bi_query,              \* find_relevant_concept: query
    bi_query_embedding,    \* find_relevant_concept: the query's embedding
    concept_embeddings,    \* BusinessIntelligence.concept_embeddings
    bi_result,             \* find_relevant_concept: the value returned
    threads,               \* request threads of the server: position and locals
    arrivals,              \* history: number of requests the server has received
    written,               \* history: the entries store_query calls have written
    threshold_arg,         \* SemanticCache.__init__: similarity_threshold as passed
    lookup,                \* history: the last direct get_similar_query call
    reading,               \* history: the last read operation and what it returned
    db_tables,             \* the tables of self.db: table -> column -> type
    stats_failed,          \* history: the <<table, column>> whose statistics query raised
    schema_info            \* ModernDataChatbot.schema_info

vars == <<similarity_threshold, max_turns, cache, sessions, pc, question,
          session_id, validation, sql_query, results, insights, response,
          steps, calls, unanswerable, asks, asked, faults, added,
          bi_query, bi_query_embedding, concept_embeddings, bi_result,
          threads, arrivals, written, threshold_arg, lookup, reading,
          db_tables, stats_failed, schema_info>>

configVars == <<similarity_threshold, max_turns>>
askVars == <<pc, question, session_id, validation, sql_query, results,
             insights, response, steps, calls, unanswerable, asks, asked, faults>>
biVars == <<bi_query, bi_query_embedding, concept_embeddings, bi_result>>
threadVars == <<threads, arrivals, written>>
lookupVars == <<threshold_arg, lookup, reading>>
schemaVars == <<db_tables, stats_failed, schema_info>>

None == "None"

\* a local of ask that has no value yet
Unassigned == [unassigned |-> TRUE]

----------------------------------------------------------------------------
(* Bounds of the model *)

\* ask calls per behaviour of Spec
MaxAsks == 2
\* external failures (embedding, language model, query engine) per behaviour
MaxFaults == 1
\* the configured max_turns_per_session of Spec, and the largest one of SpecMemory
MaxTurns == 2
\* add_turn calls per behaviour of SpecMemory
MaxAddTurns == 4
\* ask calls per behaviour of SpecReliable
MaxReliableAsks == 5
\* request threads of the server, and requests they serve in all
MaxThreads == 2
MaxRequests == 3
\* entries of the cache, and lookups per behaviour, of SpecCache
MaxCacheEntries == 2
MaxLookups == 2
\* add_turn calls per behaviour of SpecContext
MaxContextTurns == 7

----------------------------------------------------------------------------
(* The texts the model draws its questions from *)

QRegion   == "revenue por region"
QControl  == "usuarios en tiendas Control"
QBoth     == "revenue y usuarios"
QFollowUp == "que tipo de tienda mencione antes"
QHola     == "Hola"

Questions == {QRegion, QControl, QBoth, QFollowUp, QHola}

\* the queries of SpecBI
BIQueries == {"ventas por Zona", "tipo de tienda", "test por zona", "mejores locales",
              "STORE TYPE", "rendimiento"}

\* further texts of the direct cache and memory calls
QUsers == "usuarios por tienda"
QBlank == " "
QTie   == "rendimiento"
\* QRegion in another case and with blanks around it
QRegionCaps == "  Revenue POR Region "

Texts == Questions \cup BIQueries \cup {QUsers, QBlank, QRegionCaps}

----------------------------------------------------------------------------
(* Text: str.lower, str.strip, the `in` operator *)

UpperChars == "ABCDEFGHIJKLMNOPQRSTUVWXYZ"
LowerChars == "abcdefghijklmnopqrstuvwxyz"

CharAt(s, i) == SubSeq(s, i, i)

LowerChar(c) ==
    IF \E i \in 1..Len(UpperChars) : CharAt(UpperChars, i) = c
    THEN CharAt(LowerChars, CHOOSE i \in 1..Len(UpperChars) : CharAt(UpperChars, i) = c)
    ELSE c

RECURSIVE LowerOf(_)
LowerOf(s) == IF s = "" THEN "" ELSE LowerChar(CharAt(s, 1)) \o LowerOf(Tail(s))

\* str.lower of the texts of the model, computed once
LowerOfTexts == [t \in Texts |-> LowerOf(t)]

\* s.lower()
Lower(s) == IF s \in Texts THEN LowerOfTexts[s] ELSE LowerOf(s)

IsSpace(c) == c \in {" ", "\t", "\n"}

RECURSIVE LStrip(_)
LStrip(s) == IF s # "" /\ IsSpace(CharAt(s, 1)) THEN LStrip(Tail(s)) ELSE s

RECURSIVE RStrip(_)
RStrip(s) ==
    IF s # "" /\ IsSpace(CharAt(s, Len(s)))
    THEN RStrip(SubSeq(s, 1, Len(s) - 1))
    ELSE s

Strip(s) == RStrip(LStrip(s))

\* keyword in text
Contains(text, keyword) ==
    \E i \in 1..(Len(text) - Len(keyword) + 1) :
        SubSeq(text, i, i + Len(keyword) - 1) = keyword

\* any(keyword in text for keyword in keywords), keywords a sequence
ContainsAny(text, keywords) ==
    \E k \in 1..Len(keywords) : Contains(text, keywords[k])

\* s[:n]
Prefix(s, n) == SubSeq(s, 1, IF Len(s) < n THEN Len(s) ELSE n)

\* xs[-n:] for n >= 0 (xs[-0:] is the whole list)
LastN(xs, n) ==
    IF n = 0 \/ Len(xs) <= n THEN xs ELSE SubSeq(xs, Len(xs) - n + 1, Len(xs))

----------------------------------------------------------------------------
(* Cosine similarity *)

Dot(a, b) == a[1] * b[1] + a[2] * b[2]
NormSq(a) == Dot(a, a)

\* np.dot(a, b) / (np.linalg.norm(a) * np.linalg.norm(b)): d / sqrt(n);
\* n = 0 is the nan that 0/0 yields
CosineSimilarity(a, b) == [d |-> Dot(a, b), n |-> NormSq(a) * NormSq(b)]

IsNan(s) == s.n = 0

\* s >= t on floats
SimAtLeast(s, t) ==
    IF IsNan(s) \/ IsNan(t) THEN FALSE
    ELSE IF s.d >= 0 /\ t.d < 0 THEN TRUE
    ELSE IF s.d < 0 /\ t.d >= 0 THEN FALSE
    ELSE IF s.d >= 0 THEN s.d * s.d * t.n >= t.d * t.d * s.n
    ELSE s.d * s.d * t.n <= t.d * t.d * s.n

\* s > t on floats (False when either side is nan)
SimGreater(s, t) ==
    IF IsNan(s) \/ IsNan(t) THEN FALSE
    ELSE IF s.d >= 0 /\ t.d < 0 THEN TRUE
    ELSE IF s.d < 0 /\ t.d >= 0 THEN FALSE
    ELSE IF s.d >= 0 THEN s.d * s.d * t.n > t.d * t.d * s.n
    ELSE s.d * s.d * t.n < t.d * t.d * s.n

Rational(p, q) == [d |-> p, n |-> q * q]
Zero == Rational(0, 1)

----------------------------------------------------------------------------
(* SessionMemory *)

ConversationTurn(q, a, sql, ts, sid) ==
    [question |-> q, answer |-> a, sql_used |-> sql, timestamp |-> ts,
     session_id |-> sid]

\* add_turn slicing from the front, [:max_turns]
add_turn_keep_oldest(sess, maxTurns, sid, q, a, sql, ts) ==
    LET existing == IF sid \in DOMAIN sess THEN sess[sid] ELSE <<>>
        appended == Append(existing, ConversationTurn(q, a, sql, ts, sid))
        kept     == IF Len(appended) > maxTurns
                    THEN SubSeq(appended, 1, maxTurns)
                    ELSE appended
    IN  [s \in DOMAIN sess \cup {sid} |-> IF s = sid THEN kept ELSE sess[s]]

\* add_turn on a turn list that all sessions share
add_turn_every_session(sess, maxTurns, sid, q, a, sql, ts) ==
    [s \in DOMAIN sess \cup {sid} |->
        LET existing == IF s \in DOMAIN sess THEN sess[s] ELSE <<>>
            appended == Append(existing, ConversationTurn(q, a, sql, ts, sid))
        IN  IF Len(appended) > maxTurns
            THEN SubSeq(appended, Len(appended) - maxTurns + 1, Len(appended))
            ELSE appended]

\* self.sessions after add_turn(session_id, question, answer, sql_used)
add_turn(sess, maxTurns, sid, q, a, sql, ts) ==
    LET existing == IF sid \in DOMAIN sess THEN sess[sid] ELSE <<>>
        appended == Append(existing, ConversationTurn(q, a, sql, ts, sid))
        kept     == IF Len(appended) > maxTurns
                    THEN LastN(appended, maxTurns)
                    ELSE appended
    IN  [s \in DOMAIN sess \cup {sid} |-> IF s = sid THEN kept ELSE sess[s]]

RECURSIVE RenderTurns(_, _)
\* the lines of get_conversation_context for turns i, i + 1, ...
RenderTurns(turns, i) ==
    IF i > Len(turns) THEN ""
    ELSE "Turn " \o ToString(i) \o ":\n"
         \o "  User asked: " \o turns[i].question \o "\n"
         \o "  Response summary: " \o Prefix(turns[i].answer, 150) \o "...\n"
         \o "  SQL executed: " \o turns[i].sql_used \o "\n"
         \o "\n"
         \o RenderTurns(turns, i + 1)

\* a summary that renders every turn of the session
get_conversation_context_all(sess, sid) ==
    IF sid \notin DOMAIN sess \/ sess[sid] = <<>>
    THEN ""
    ELSE "CONVERSATION HISTORY (Previous questions in this session):\n"
         \o RenderTurns(sess[sid], 1)
         \o "IMPORTANT: Only reference information that was actually mentioned in previous questions."

get_conversation_context(sess, sid) ==
    IF sid \notin DOMAIN sess \/ sess[sid] = <<>>
    THEN ""
    ELSE "CONVERSATION HISTORY (Previous questions in this session):\n"
         \o RenderTurns(LastN(sess[sid], 5), 1)
         \o "IMPORTANT: Only reference information that was actually mentioned in previous questions."

\* the accented keywords are stored mis-encoded in the source ("mencionA(c)"
\* stands for the mis-encoded "mencione" with an accent)
follow_up_keywords ==
    << "anteriormente", "mencionA(c)", "mencionaste", "dijiste",
       "esa", "ese", "esos", "esas", "aquella", "aquel",
       "la anterior", "el anterior", "antes", "previamente" >>

RECURSIVE JoinQuestionsLower(_)
\* " ".join(turn.question.lower() for turn in turns)
JoinQuestionsLower(turns) ==
    IF turns = <<>> THEN ""
    ELSE IF Len(turns) = 1 THEN Lower(turns[1].question)
    ELSE Lower(turns[1].question) \o " " \o JoinQuestionsLower(Tail(turns))

\* any(keyword in question_lower for keyword in follow_up_keywords), for
\* each text of the model
FollowUpFlag == [t \in Texts |-> ContainsAny(Lower(t), follow_up_keywords)]

validate_follow_up_question(sess, sid, q) ==
    IF sid \notin DOMAIN sess \/ sess[sid] = <<>>
    THEN [valid |-> TRUE, message |-> ""]
    ELSE IF FollowUpFlag[q]
    THEN LET context_summary == JoinQuestionsLower(sess[sid])
         IN  [valid |-> TRUE, is_follow_up |-> TRUE,
              context_available |-> context_summary,
              message |-> "Follow-up question detected. Previous context: "
                          \o Prefix(context_summary, 200) \o "..."]
    ELSE [valid |-> TRUE, is_follow_up |-> FALSE, message |-> ""]

\* get_related_queries(session_id): the SQL of the last three turns
get_related_queries(sess, sid) ==
    IF sid \notin DOMAIN sess THEN << >>
    ELSE LET recent == LastN(sess[sid], 3)
         IN  [i \in 1..Len(recent) |-> recent[i].sql_used]

\* a defaultdict(list) creates the key that is read
SessionsReadCreating(sess, sid) ==
    [s \in DOMAIN sess \cup {sid} |-> IF s \in DOMAIN sess THEN sess[s] ELSE << >>]

\* self.sessions after a read of session_id: the readers test
\* `session_id not in self.sessions` and index only a key that is present,
\* and self.sessions is a plain dict, which neither of the two changes
SessionsRead(sess, sid) == sess

\* validation.get("is_follow_up", False)
IsFollowUp(v) == "is_follow_up" \in DOMAIN v /\ v.is_follow_up

----------------------------------------------------------------------------
(* SemanticCache *)

\* hashlib.md5(...).hexdigest(): a tag of the text it digests
Md5(text) == "md5:" \o text

\* a key that digests the text as it was typed
QueryKeyOfTyped == [t \in Texts |-> Md5(t)]

QueryKeyOf == [t \in Texts |-> Md5(Strip(Lower(t)))]

_get_query_key(query) == QueryKeyOf[query]

CacheEntry(key, emb, sql, res, ts) ==
    [key |-> key, query_embedding |-> emb, sql_query |-> sql, results |-> res,
     timestamp |-> ts, hit_count |-> 0]

\* a lookup that stops at the first entry above the threshold
first_similar_query(c, emb, thr) ==
    LET above == {i \in 1..Len(c) :
                    SimGreater(CosineSimilarity(emb, c[i].query_embedding), thr)}
    IN  IF above = {} THEN 0 ELSE CHOOSE i \in above : \A j \in above : i <= j

RECURSIVE ScanCache(_, _, _, _, _, _)
\* the loop of get_similar_query from entry i on: the index of best_match
\* (0 for None)
ScanCache(c, emb, thr, i, best_match, best_similarity) ==
    IF i > Len(c) THEN best_match
    ELSE LET similarity == CosineSimilarity(emb, c[i].query_embedding)
         IN  IF SimGreater(similarity, best_similarity) /\ SimGreater(similarity, thr)
             THEN ScanCache(c, emb, thr, i + 1, i, similarity)
             ELSE ScanCache(c, emb, thr, i + 1, best_match, best_similarity)

\* get_similar_query: the index of the entry returned, 0 for None
get_similar_query(c, emb, thr) == ScanCache(c, emb, thr, 1, 0, Zero)

\* a lookup that counts a hit on every entry above the threshold
CacheAfterLookupAll(c, emb, thr) ==
    [i \in 1..Len(c) |->
        IF SimGreater(CosineSimilarity(emb, c[i].query_embedding), thr)
        THEN [c[i] EXCEPT !.hit_count = @ + 1]
        ELSE c[i]]

\* a lookup that also refreshes the entry it returns
CacheAfterLookupTouch(c, emb, thr) ==
    LET best_match == get_similar_query(c, emb, thr)
    IN  IF best_match # 0
        THEN [c EXCEPT ![best_match].hit_count = @ + 1, ![best_match].timestamp = -1]
        ELSE c

\* self.cache after get_similar_query
CacheAfterLookup(c, emb, thr) ==
    LET best_match == get_similar_query(c, emb, thr)
    IN  IF best_match # 0
        THEN [c EXCEPT ![best_match].hit_count = @ + 1]
        ELSE c

\* a store that keeps only the responses whose SQL was executed
store_query_executed_only(c, query, emb, sql, res, ts) ==
    IF res.sql_executed
    THEN LET key == QueryKeyOf[query]
             entry == CacheEntry(key, emb, sql, res, ts)
         IN  IF \E i \in 1..Len(c) : c[i].key = key
             THEN [i \in 1..Len(c) |-> IF c[i].key = key THEN entry ELSE c[i]]
             ELSE Append(c, entry)
    ELSE c

\* self.cache after store_query: an existing key keeps its place
store_query(c, query, emb, sql, res, ts) ==
    LET key == _get_query_key(query)
        entry == CacheEntry(key, emb, sql, res, ts)
    IN  IF \E i \in 1..Len(c) : c[i].key = key
        THEN [i \in 1..Len(c) |-> IF c[i].key = key THEN entry ELSE c[i]]
        ELSE Append(c, entry)

RECURSIVE SumHits(_)
SumHits(c) == IF c = <<>> THEN 0 ELSE c[1].hit_count + SumHits(Tail(c))

Max(a, b) == IF a >= b THEN a ELSE b

RECURSIVE TotalLen(_, _)
TotalLen(log, ids) ==
    IF ids = {} THEN 0
    ELSE LET s == CHOOSE x \in ids : TRUE
         IN  Len(log[s]) + TotalLen(log, ids \ {s})

\* the hit rate taken per entry, total_hits / max(1, total_entries) * 100
get_cache_stats_per_entry(c) ==
    [total_cached_queries |-> Len(c),
     total_cache_hits |-> SumHits(c),
     cache_hit_rate |-> [num |-> SumHits(c) * 100, den |-> Max(1, Len(c))]]

\* cache_hit_rate is the fraction num / den
get_cache_stats(c) ==
    LET total_entries == Len(c)
        total_hits == SumHits(c)
    IN  [total_cached_queries |-> total_entries,
         total_cache_hits |-> total_hits,
         cache_hit_rate |-> [num |-> total_hits * 100,
                             den |-> Max(1, total_entries + total_hits)]]

\* get_session_stats(); avg_turns_per_session is the fraction num / den
get_session_stats(sess) ==
    LET total_sessions == Cardinality(DOMAIN sess)
        total_turns == TotalLen(sess, DOMAIN sess)
    IN  [active_sessions |-> total_sessions,
         total_conversation_turns |-> total_turns,
         avg_turns_per_session |-> [num |-> total_turns, den |-> Max(1, total_sessions)]]

\* get_session_history(session_id); isoformat() renders the timestamp as text
get_session_history(sess, sid) ==
    IF sid \notin DOMAIN sess THEN << >>
    ELSE [i \in 1..Len(sess[sid]) |->
            [question |-> sess[sid][i].question,
             answer |-> sess[sid][i].answer,
             sql_used |-> sess[sid][i].sql_used,
             timestamp |-> ToString(sess[sid][i].timestamp)]]

----------------------------------------------------------------------------
(* BusinessIntelligence *)

\* "regiA3n" and "conversiA3n" stand for the accented words, which the source
\* stores mis-encoded
concepts ==
    << [natural_term |-> "performance por regiA3n",
        sql_pattern |-> "SELECT region, SUM(revenue) as total_revenue, AVG(conversion_rate) as avg_conversion FROM {table} GROUP BY region",
        required_columns |-> <<"region", "revenue", "conversion_rate">>,
        context_keywords |-> <<"regiA3n", "area", "zona", "geographical", "performance regional">>],
       [natural_term |-> "mejor tipo de tienda",
        sql_pattern |-> "SELECT tipo_tienda, COUNT(*) as tiendas, AVG(revenue) as avg_revenue FROM {table} GROUP BY tipo_tienda ORDER BY avg_revenue DESC",
        required_columns |-> <<"tipo_tienda", "revenue">>,
        context_keywords |-> <<"tipo", "formato", "mall", "street", "outlet", "store type">>],
       [natural_term |-> "impacto del experimento",
        sql_pattern |-> "SELECT experimento, AVG(conversion_rate) as avg_conversion, AVG(revenue) as avg_revenue FROM {table} GROUP BY experimento",
        required_columns |-> <<"experimento", "conversion_rate", "revenue">>,
        context_keywords |-> <<"a/b test", "experiment", "control", "test", "treatment">>],
       [natural_term |-> "tiendas con mejor conversiA3n",
        sql_pattern |-> "SELECT tienda_id, tipo_tienda, region, conversion_rate, revenue FROM {table} WHERE conversion_rate > (SELECT AVG(conversion_rate) FROM {table}) ORDER BY conversion_rate DESC",
        required_columns |-> <<"tienda_id", "tipo_tienda", "region", "conversion_rate", "revenue">>,
        context_keywords |-> <<"top performers", "best stores", "high conversion", "mejores tiendas">>] >>

NaturalTerms == {concepts[i].natural_term : i \in 1..Len(concepts)}

\* Method 1 of find_relevant_concept: the first concept one of whose
\* keywords the lowercased query contains (0 when there is none)
KeywordConceptOf ==
    [query \in Texts |->
        LET query_lower == Lower(query)
            hits == {i \in 1..Len(concepts) :
                        ContainsAny(query_lower, concepts[i].context_keywords)}
        IN  IF hits = {} THEN 0 ELSE CHOOSE i \in hits : \A j \in hits : i <= j]

KeywordConcept(query) == KeywordConceptOf[query]

\* similarity_threshold = 0.6
ConceptThreshold == Rational(3, 5)

RECURSIVE ScanConcepts(_, _, _, _, _)
\* Method 2 of find_relevant_concept from concept i on
ScanConcepts(emb, cembs, i, best_concept, best_similarity) ==
    IF i > Len(concepts) THEN best_concept
    ELSE LET similarity == CosineSimilarity(emb, cembs[concepts[i].natural_term])
         IN  IF SimGreater(similarity, best_similarity)
                /\ SimGreater(similarity, ConceptThreshold)
             THEN ScanConcepts(emb, cembs, i + 1, i, similarity)
             ELSE ScanConcepts(emb, cembs, i + 1, best_concept, best_similarity)

\* Method 2 keeping the last declared of the concepts of highest similarity
EmbeddingConceptLast(emb, cembs) ==
    LET sim(i) == CosineSimilarity(emb, cembs[concepts[i].natural_term])
        above == {i \in 1..Len(concepts) : SimGreater(sim(i), ConceptThreshold)}
        best == {i \in above : \A j \in above : ~SimGreater(sim(j), sim(i))}
    IN  IF best = {} THEN 0 ELSE CHOOSE i \in best : \A j \in best : j <= i

EmbeddingConcept(emb, cembs) == ScanConcepts(emb, cembs, 1, 0, Zero)

\* the two methods in the other order
find_relevant_concept_embedding_first(query, emb, cembs) ==
    IF EmbeddingConcept(emb, cembs) # 0
    THEN EmbeddingConcept(emb, cembs)
    ELSE KeywordConcept(query)

\* find_relevant_concept: the index of the concept returned, 0 for None;
\* emb is what self.model.encode([query]) returns
find_relevant_concept(query, emb, cembs) ==
    IF KeywordConcept(query) # 0
    THEN KeywordConcept(query)
    ELSE EmbeddingConcept(emb, cembs)

\* the encode calls find_relevant_concept makes: none when a keyword matches
ConceptLookupCalls(query) ==
    IF KeywordConcept(query) # 0 THEN <<>> ELSE <<"embedding">>

----------------------------------------------------------------------------
(* The questions asked and the embedding model *)

RECURSIVE JoinWords(_)
JoinWords(ws) ==
    IF ws = <<>> THEN ""
    ELSE IF Len(ws) = 1 THEN ws[1]
    ELSE ws[1] \o " " \o JoinWords(Tail(ws))

\* concept_text of _initialize_concept_embeddings
ConceptText(i) ==
    concepts[i].natural_term \o " " \o JoinWords(concepts[i].context_keywords)

\* SentenceTransformer.encode: the same vector for the same text
Encode(text) ==
    CASE text = QRegion   -> <<5, 0>>
      [] text = QRegionCaps -> <<5, 0>>
      [] text = QControl  -> <<3, 4>>
      [] text = QBoth     -> <<5, 3>>
      [] text = QFollowUp -> <<-3, 4>>
      [] text = QHola     -> <<0, -5>>
      [] text = QUsers    -> <<4, 3>>
      [] text = QBlank    -> <<0, 0>>
      [] text = ConceptText(1) -> <<4, -1>>
      [] text = ConceptText(2) -> <<-2, 3>>
      [] text = ConceptText(3) -> <<1, 3>>
      [] text = ConceptText(4) -> <<-4, -2>>
      [] OTHER -> <<1, 1>>

\* _initialize_concept_embeddings
InitialConceptEmbeddings ==
    [t \in NaturalTerms |->
        Encode(ConceptText(CHOOSE i \in 1..Len(concepts) : concepts[i].natural_term = t))]

\* what a question refers back to ("" when it refers to nothing said before)
Referent(q) == IF q = QFollowUp THEN "tipo de tienda" ELSE ""

\* <<t, q>>: the text t mentions what q refers back to
Mentioned ==
    {p \in Texts \X Texts : Referent(p[2]) # "" /\ Contains(Lower(p[1]), Referent(p[2]))}

\* the referent of q occurs in a previous question of the session
ReferentPresent(sess, sid, q) ==
    /\ sid \in DOMAIN sess
    /\ \E k \in 1..Len(sess[sid]) : <<sess[sid][k].question, q>> \in Mentioned

\* q asks about something the conversation never mentioned
Unanswerable(sess, sid, q) == Referent(q) # "" /\ ~ReferentPresent(sess, sid, q)

----------------------------------------------------------------------------
(* The language model and the query engine, as ask sees them *)

EmbedOutcomes == {"ok", "fail"}
\* a structured reply of one of three kinds, or a failure of the call
GenReplies == {"data", "meta", "unanswerable"}
GenFailures == {"timeout", "malformed"}
ExecOutcomes == {"rows", "error"}
InsightOutcomes == {"ok", "fail"}

FallbackSQL == "SELECT * FROM tiendas LIMIT 10"

SQLQuery(sql, reasoning, business_context, confidence, requires_execution) ==
    [sql |-> sql, reasoning |-> reasoning, business_context |-> business_context,
     confidence |-> confidence, requires_execution |-> requires_execution]

\* a generation step that takes the SQL pattern of a matched concept as it is
ConceptReply(kind, q) ==
    IF KeywordConcept(q) # 0
    THEN SQLQuery(concepts[KeywordConcept(q)].sql_pattern, "business pattern",
                  "context of " \o q, 90, TRUE)
    ELSE SQLQuery("SELECT ... /* " \o q \o " */", "answers the question",
                  "context of " \o q, 90, TRUE)

\* the SQLQuery the model's reply parses to; requires_execution defaults to
\* True when the reply leaves it out
ParsedReply(kind, q) ==
    CASE kind = "data" ->
            SQLQuery("SELECT ... /* " \o q \o " */", "answers the question",
                     "context of " \o q, 90, TRUE)
      [] kind = "meta" ->
            SQLQuery("SELECT 'meta' as mensaje;", "question about the conversation",
                     "conversation", 80, FALSE)
      [] kind = "unanswerable" ->
            SQLQuery("SELECT 'No hay informacion previa sobre este tema' as mensaje;",
                     "El usuario pregunta sobre un tema que no fue mencionado en conversaciones anteriores.",
                     "No puedo responder esta pregunta porque se refiere a informacion que no fue discutida previamente.",
                     10, FALSE)

\* a fallback that is not to be executed
FallbackQueryNotExecuted(error) ==
    SQLQuery(FallbackSQL, "Error in SQL generation: " \o error,
             "Unable to generate proper query", 10, FALSE)

\* the except branch of _generate_sql_with_structured_output
FallbackQuery(error) ==
    SQLQuery(FallbackSQL, "Error in SQL generation: " \o error,
             "Unable to generate proper query", 10, TRUE)

\* the model follows the CONVERSATION CONTEXT RULES of the prompt: a question
\* about something never mentioned gets the prescribed refusal, and only it
ReplyAllowed(kind, unans) == (kind = "unanswerable") <=> unans

\* _execute_query
QueryRows(sql) == << [row |-> "result of " \o sql] >>
\* an engine error that yields no row
QueryErrorNoRows == << >>
QueryError == << [error |-> "Parser Error: syntax error"] >>
Placeholder == << [message |-> "No SQL execution required", type |-> "meta_response"] >>

trivial_patterns ==
    << "chatgpt", "gpt", "openai", "sos", "eres", "who are you", "what are you",
       "hola", "hello", "hi", "buenos dA-as", "good morning", "como estas",
       "how are you", "gracias", "thank you", "adiA3s", "goodbye" >>

DataInsight(key_finding, supporting_metrics, recommendations, related_questions) ==
    [key_finding |-> key_finding, supporting_metrics |-> supporting_metrics,
     recommendations |-> recommendations, related_questions |-> related_questions]

IdentityInsight ==
    DataInsight("Soy un asistente de analisis de datos para Gatorade",
                <<"Capacidad de analisis de datos de tiendas">>,
                <<"Prueba preguntas sobre tiendas por region">>,
                <<"Que puedes hacer?">>)

GreetingInsight ==
    DataInsight("Hola! Soy tu asistente de analisis de datos para Gatorade.",
                <<"200 tiendas en la base de datos">>,
                <<"Empieza con una pregunta sobre las tiendas">>,
                <<"Cuantas tiendas tenemos?">>)

\* a fallback that advises the user
RetryInsight ==
    DataInsight("Unable to generate insights", <<>>, <<"Try again later">>, <<>>)

\* the except branch of _generate_insights
NeutralInsight == DataInsight("Unable to generate insights", <<>>, <<>>, <<>>)

\* the canned answers of _generate_insights: TRUE when it returns before the
\* language model is called
AnsweredDirectlyTexts ==
    {q \in Texts :
        /\ ContainsAny(Lower(q), trivial_patterns)
        /\ \/ Contains(Lower(q), "chatgpt") \/ Contains(Lower(q), "gpt")
           \/ ContainsAny(Lower(q), <<"hola", "hello", "hi", "buenos dA-as">>)}

AnsweredDirectly(q) == q \in AnsweredDirectlyTexts

IdentityTexts ==
    {q \in Texts : Contains(Lower(q), "chatgpt") \/ Contains(Lower(q), "gpt")}

CannedInsight(q) == IF q \in IdentityTexts THEN IdentityInsight ELSE GreetingInsight

\* the DataInsight the model's reply parses to, over results[:5]
ModelInsight(q, res) ==
    DataInsight("Finding for " \o q, SubSeq(res, 1, IF Len(res) < 5 THEN Len(res) ELSE 5),
                <<"recommendation">>, <<"related question">>)

\* a response that reports sql_executed without looking at the query
BuildResponseExecuted(q, query, res, ins) ==
    [question |-> q,
     answer |-> ins.key_finding \o "\n\n**Business Context:** " \o query.business_context,
     data |-> res,
     insights |-> ins,
     sql_used |-> query.sql,
     sql_executed |-> TRUE,
     reasoning |-> query.reasoning,
     confidence |-> query.confidence,
     cached |-> FALSE,
     execution_time |-> "elapsed"]

\* step 5 of ask
BuildResponse(q, query, res, ins) ==
    [question |-> q,
     answer |-> ins.key_finding \o "\n\n**Business Context:** " \o query.business_context,
     data |-> res,
     insights |-> ins,
     sql_used |-> query.sql,
     sql_executed |-> query.requires_execution,
     reasoning |-> query.reasoning,
     confidence |-> query.confidence,
     cached |-> FALSE,
     execution_time |-> "elapsed"]

\* the dict ask returns on a cache hit
CachedResponse(q, entry) ==
    [question |-> q,
     answer |-> entry.results.answer,
     data |-> entry.results.data,
     insights |-> entry.results.insights,
     sql_used |-> entry.sql_query,
     cached |-> TRUE,
     execution_time |-> "elapsed"]

\* d.get(key, default) on a dict
GetKey(d, key, default) == IF key \in DOMAIN d THEN d[key] ELSE default

\* chat_message of app.py: the "response" object delivered for what ask
\* returned (confidence 50 is 0.5)
chat_message(r, sid) ==
    [text |-> r.answer,
     data |-> GetKey(r, "data", << >>),
     sql_used |-> GetKey(r, "sql_used", ""),
     sql_executed |-> GetKey(r, "sql_executed", TRUE),
     confidence |-> GetKey(r, "confidence", 50),
     execution_time |-> GetKey(r, "execution_time", 0),
     cached |-> GetKey(r, "cached", FALSE),
     insights |-> GetKey(r, "insights", << >>),
     session_id |-> sid]

\* d[key] = value on a dict
SetKey(d, key, value) ==
    [k \in DOMAIN d \cup {key} |-> IF k = key THEN value ELSE d[k]]

----------------------------------------------------------------------------
(* ModernDataChatbot._analyze_schema *)

\* the tables loaded by _load_data: tiendas, and maestro_tiendas
DefaultTables ==
    [t \in {"tiendas", "maestro_tiendas"} |->
        IF t = "tiendas"
        THEN [c \in {"region", "revenue", "usuarios"} |->
                 CASE c = "region" -> "VARCHAR"
                   [] c = "revenue" -> "DOUBLE"
                   [] c = "usuarios" -> "INTEGER"]
        ELSE [c \in {"tipo_tienda"} |-> "VARCHAR"]]

\* columns of the types that get sample values, and of those that get statistics
TextColumns(columns) == {c \in DOMAIN columns : columns[c] \in {"VARCHAR", "TEXT"}}
NumericColumns(columns) ==
    {c \in DOMAIN columns : columns[c] \in {"INTEGER", "DOUBLE", "BIGINT", "FLOAT"}}

\* the row of MIN, MAX, AVG and COUNT(DISTINCT) of a column
ColumnStats(t, c) ==
    [min |-> "MIN(" \o c \o ") FROM " \o t, max |-> "MAX(" \o c \o ") FROM " \o t,
     avg |-> "AVG(" \o c \o ") FROM " \o t,
     unique_count |-> "COUNT(DISTINCT " \o c \o ") FROM " \o t]

\* an analysis that leaves out the tables it has no statistics for
_analyze_schema_nonempty(tables, failing) ==
    [tables |-> [t \in DOMAIN tables |-> [columns |-> tables[t]]],
     categorical_samples |->
        [t \in DOMAIN tables |->
            [c \in TextColumns(tables[t]) |-> "SELECT DISTINCT " \o c \o " FROM " \o t]],
     stats |->
        [t \in {u \in DOMAIN tables :
                   \E c \in NumericColumns(tables[u]) : <<u, c>> \notin failing} |->
            [c \in {c \in NumericColumns(tables[t]) : <<t, c>> \notin failing} |->
                ColumnStats(t, c)]]]

\* _analyze_schema; failing: the <<table, column>> whose statistics query raises
_analyze_schema(tables, failing) ==
    [tables |-> [t \in DOMAIN tables |-> [columns |-> tables[t]]],
     categorical_samples |->
        [t \in DOMAIN tables |->
            [c \in TextColumns(tables[t]) |-> "SELECT DISTINCT " \o c \o " FROM " \o t]],
     stats |->
        [t \in DOMAIN tables |->
            [c \in {c \in NumericColumns(tables[t]) : <<t, c>> \notin failing} |->
                ColumnStats(t, c)]]]

\* the chatbot as constructed over the default tables
InitSchema ==
    /\ db_tables = DefaultTables
    /\ stats_failed = {}
    /\ schema_info = _analyze_schema(DefaultTables, {})

----------------------------------------------------------------------------
(* ModernDataChatbot.ask, one action per step *)

SessionIds == {"s1"}
\* similarity_threshold defaults to 0.85
DefaultThreshold == Rational(17, 20)

\* similarity_threshold = None, the default of the parameter
NoThreshold == [none |-> TRUE]

\* SemanticCache.__init__: similarity_threshold or the default; None and 0 are falsy
SemanticCacheThreshold(arg) ==
    IF arg = NoThreshold THEN DefaultThreshold
    ELSE IF arg.d = 0 THEN DefaultThreshold
    ELSE arg

\* no read operation has been called
NoRead == [n |-> 0, op |-> "", session_id |-> "", returned |-> << >>]

\* no direct lookup has been made
NoLookup == [n |-> 0, query |-> "", returned |-> 0]

\* the cache as constructed with one of the arguments args
InitLookup(args) ==
    /\ threshold_arg \in args
    /\ similarity_threshold = SemanticCacheThreshold(threshold_arg)
    /\ lookup = NoLookup
    /\ reading = NoRead

memoryVars == <<sessions, added>>

\* the history of add_turn calls, per session
Logged(log, sid, turn) ==
    [s \in DOMAIN log \cup {sid} |->
        IF s = sid THEN Append(IF sid \in DOMAIN log THEN log[sid] ELSE <<>>, turn)
        ELSE log[s]]

\* the session memory updated before the cache
NextStepMemoryFirst(step) ==
    CASE step = "generate_sql" -> "execute"
      [] step = "execute" -> "insights"
      [] step = "insights" -> "add_turn"
      [] step = "add_turn" -> "store"
      [] step = "store" -> "done"

\* the store waits for a retry that nothing starts
NextStepAwaitRetry(step) ==
    CASE step = "generate_sql" -> "execute"
      [] step = "execute" -> "insights"
      [] step = "insights" -> "store"
      [] step = "store" -> "retry"
      [] step = "add_turn" -> "done"

\* the order of the steps of ask after the cache lookup (lines 658-699)
NextStep(step) ==
    CASE step = "generate_sql" -> "execute"
      [] step = "execute" -> "insights"
      [] step = "insights" -> "store"
      [] step = "store" -> "add_turn"
      [] step = "add_turn" -> "done"

\* a lookup whose result is not returned
AfterLookupContinue(best_match) == "generate_sql"

\* line 646, if cached_result: return
AfterLookup(best_match) == IF best_match # 0 THEN "done" ELSE "generate_sql"

\* lines 633-642: the caller passes question q and session id s (None for
\* no session id); limit bounds the number of calls
Start(q, s, limit) ==
    /\ pc \in {"idle", "done", "raised"}
    /\ asks < limit
    /\ asks' = asks + 1
    /\ asked' = [asked EXCEPT ![q] = @ + 1]
    /\ question' = q
    /\ session_id' = IF s = None THEN "uuid-" \o ToString(asks + 1) ELSE s
    /\ validation' = validate_follow_up_question(sessions, session_id', q)
    /\ unanswerable' = Unanswerable(sessions, session_id', q)
    /\ sql_query' = Unassigned
    /\ results' = <<Unassigned>>
    /\ insights' = Unassigned
    /\ response' = Unassigned
    /\ steps' = <<>>
    /\ calls' = <<>>
    /\ pc' = "cache_check"
    /\ UNCHANGED <<configVars, lookupVars, schemaVars, cache, memoryVars, faults, biVars, threadVars>>

\* lines 644-656: get_similar_query, and the return of the cached result
CacheCheck(embed) ==
    /\ pc = "cache_check"
    /\ embed = "fail" => faults < MaxFaults
    /\ steps' = Append(steps, "cache_lookup")
    /\ calls' = Append(calls, "embedding")
    /\ IF embed = "fail"
       THEN /\ pc' = "raised"
            /\ faults' = faults + 1
            /\ UNCHANGED <<cache, response>>
       ELSE LET emb == Encode(question)
                best_match == get_similar_query(cache, emb, similarity_threshold)
            IN  /\ cache' = CacheAfterLookup(cache, emb, similarity_threshold)
                /\ faults' = faults
                /\ pc' = AfterLookup(best_match)
                /\ IF best_match # 0
                   THEN response' = CachedResponse(question, cache'[best_match])
                   ELSE UNCHANGED response
    /\ UNCHANGED <<configVars, lookupVars, schemaVars, memoryVars, question, session_id, validation,
                   sql_query, results, insights, unanswerable, asks, asked, biVars, threadVars>>

\* line 659, _generate_sql_with_structured_output: the concept lookup
\* (embed: its encode call, made when no keyword matches), then the call of
\* the language model (llm: its reply or its failure)
GenerateSQL(embed, llm) ==
    /\ pc = "generate_sql"
    /\ ConceptLookupCalls(question) = <<>> => embed = "ok"
    /\ embed = "fail" => faults < MaxFaults
    /\ llm \in GenFailures => faults < MaxFaults
    /\ llm \in GenReplies => ReplyAllowed(llm, unanswerable)
    /\ steps' = Append(steps, "generate_sql")
    /\ IF embed = "fail"
       THEN /\ pc' = "raised"
            /\ faults' = faults + 1
            /\ calls' = Append(calls, "embedding")
            /\ UNCHANGED sql_query
       ELSE /\ pc' = NextStep("generate_sql")
            /\ calls' = calls \o ConceptLookupCalls(question) \o <<"llm_sql">>
            /\ faults' = IF llm \in GenFailures THEN faults + 1 ELSE faults
            /\ sql_query' = IF llm \in GenFailures
                            THEN FallbackQuery(llm)
                            ELSE ParsedReply(llm, question)
    /\ UNCHANGED <<configVars, lookupVars, schemaVars, cache, memoryVars, question, session_id, validation,
                   results, insights, response, unanswerable, asks, asked, biVars, threadVars>>

\* lines 662-663: _execute_query; the fallback query reads a table that exists
ExecuteQuery(outcome) ==
    /\ pc = "execute"
    /\ sql_query.requires_execution
    /\ outcome = "error" => faults < MaxFaults /\ sql_query.sql # FallbackSQL
    /\ steps' = Append(steps, "execute")
    /\ calls' = Append(calls, "engine")
    /\ faults' = IF outcome = "error" THEN faults + 1 ELSE faults
    /\ results' = IF outcome = "error" THEN QueryError ELSE QueryRows(sql_query.sql)
    /\ pc' = NextStep("execute")
    /\ UNCHANGED <<configVars, lookupVars, schemaVars, cache, memoryVars, question, session_id, validation,
                   sql_query, insights, response, unanswerable, asks, asked, biVars, threadVars>>

\* lines 664-666
SkipExecute ==
    /\ pc = "execute"
    /\ ~sql_query.requires_execution
    /\ steps' = Append(steps, "skip_execute")
    /\ results' = Placeholder
    /\ pc' = NextStep("execute")
    /\ UNCHANGED <<configVars, lookupVars, schemaVars, cache, memoryVars, question, session_id, validation,
                   sql_query, insights, response, unanswerable, asks, asked, faults,
                   calls, biVars, threadVars>>

\* lines 669-688: _generate_insights and the response built from it
GenerateInsights(llm) ==
    /\ pc = "insights"
    /\ AnsweredDirectly(question) => llm = "ok"
    /\ llm = "fail" => faults < MaxFaults
    /\ steps' = Append(steps, "insights")
    /\ calls' = IF AnsweredDirectly(question) THEN calls ELSE Append(calls, "llm_insight")
    /\ faults' = IF llm = "fail" THEN faults + 1 ELSE faults
    /\ insights' = IF AnsweredDirectly(question) THEN CannedInsight(question)
                   ELSE IF llm = "fail" THEN NeutralInsight
                   ELSE ModelInsight(question, results)
    /\ response' = BuildResponse(question, sql_query, results, insights')
    /\ pc' = NextStep("insights")
    /\ UNCHANGED <<configVars, lookupVars, schemaVars, cache, memoryVars, question, session_id, validation,
                   sql_query, results, unanswerable, asks, asked, biVars, threadVars>>

\* line 691: store_query, whose encode call may raise
StoreQuery(embed) ==
    /\ pc = "store"
    /\ embed = "fail" => faults < MaxFaults
    /\ steps' = Append(steps, "store")
    /\ calls' = Append(calls, "embedding")
    /\ IF embed = "fail"
       THEN /\ pc' = "raised"
            /\ faults' = faults + 1
            /\ UNCHANGED cache
       ELSE /\ pc' = NextStep("store")
            /\ faults' = faults
            /\ cache' = store_query(cache, question, Encode(question),
                                    sql_query.sql, response, asks)
    /\ UNCHANGED <<configVars, lookupVars, schemaVars, memoryVars, question, session_id, validation,
                   sql_query, results, insights, response, unanswerable, asks, asked, biVars, threadVars>>

\* lines 694-699: add_turn, then response["session_id"] = session_id on the
\* dict that the cache entry holds too
AddTurn ==
    /\ pc = "add_turn"
    /\ steps' = Append(steps, "add_turn")
    /\ sessions' = add_turn(sessions, max_turns, session_id, question,
                            response.answer, sql_query.sql, asks)
    /\ added' = Logged(added, session_id,
                       ConversationTurn(question, response.answer, sql_query.sql,
                                        asks, session_id))
    /\ response' = SetKey(response, "session_id", session_id)
    /\ cache' = [i \in 1..Len(cache) |->
                    IF cache[i].key = _get_query_key(question)
                    THEN [cache[i] EXCEPT !.results = response']
                    ELSE cache[i]]
    /\ pc' = NextStep("add_turn")
    /\ UNCHANGED <<configVars, lookupVars, schemaVars, question, session_id, validation, sql_query, results,
                   insights, unanswerable, asks, asked, faults, calls, biVars, threadVars>>

Threads == 1..MaxThreads

IdleThread == [pc |-> "idle", sid |-> "", q |-> "", req |-> 0, kept |-> <<>>]

\* no request is being served
InitThreads ==
    /\ threads = [t \in Threads |-> IdleThread]
    /\ arrivals = 0
    /\ written = {}

InitAsk ==
    /\ cache = <<>>
    /\ sessions = << >>
    /\ added = << >>
    /\ pc = "idle"
    /\ question = None
    /\ session_id = None
    /\ validation = Unassigned
    /\ sql_query = Unassigned
    /\ results = <<Unassigned>>
    /\ insights = Unassigned
    /\ response = Unassigned
    /\ steps = <<>>
    /\ calls = <<>>
    /\ unanswerable = FALSE
    /\ asks = 0
    /\ asked = [q \in Questions |-> 0]
    /\ faults = 0

InitBI ==
    /\ bi_query = ""
    /\ bi_query_embedding = <<0, 0>>
    /\ concept_embeddings = InitialConceptEmbeddings
    /\ bi_result = 0

Init ==
    /\ InitLookup({NoThreshold})
    /\ InitSchema
    /\ max_turns = MaxTurns
    /\ InitAsk
    /\ InitThreads
    /\ InitBI

Next ==
    \/ \E q \in Questions, s \in SessionIds \cup {None} : Start(q, s, MaxAsks)
    \/ \E e \in EmbedOutcomes : CacheCheck(e)
    \/ \E e \in EmbedOutcomes, l \in GenReplies \cup GenFailures : GenerateSQL(e, l)
    \/ \E o \in ExecOutcomes : ExecuteQuery(o)
    \/ SkipExecute
    \/ \E l \in InsightOutcomes : GenerateInsights(l)
    \/ \E e \in EmbedOutcomes : StoreQuery(e)
    \/ AddTurn

Spec == Init /\ [][Next]_vars

\* thresholds a SemanticCache is constructed with: the default, and one that
\* two of the questions meet exactly
Thresholds == {DefaultThreshold, Rational(3, 5)}

InitReliable ==
    /\ InitLookup(Thresholds)
    /\ InitSchema
    /\ max_turns = MaxTurns
    /\ InitAsk
    /\ InitThreads
    /\ InitBI

\* the same calls when every external service answers: longer conversations
\* the questions of the longer conversations
ReliableQuestions == {QRegion, QControl, QBoth, QFollowUp}

NextReliable ==
    \/ \E q \in ReliableQuestions, s \in SessionIds : Start(q, s, MaxReliableAsks)
    \/ CacheCheck("ok")
    \/ \E l \in GenReplies : GenerateSQL("ok", l)
    \/ ExecuteQuery("rows")
    \/ SkipExecute
    \/ GenerateInsights("ok")
    \/ StoreQuery("ok")
    \/ AddTurn

SpecReliable == InitReliable /\ [][NextReliable]_vars

\* number of ask calls in the fair behaviours
MaxLiveAsks == 1

\* a step of the ask in progress: the external call it makes returns (with
\* one of its outcomes) and ask goes on
AskStep ==
    \/ \E e \in EmbedOutcomes : CacheCheck(e)
    \/ \E e \in EmbedOutcomes, l \in GenReplies \cup GenFailures : GenerateSQL(e, l)
    \/ \E o \in ExecOutcomes : ExecuteQuery(o)
    \/ SkipExecute
    \/ \E l \in InsightOutcomes : GenerateInsights(l)
    \/ \E e \in EmbedOutcomes : StoreQuery(e)
    \/ AddTurn

NextLive ==
    \/ \E q \in Questions, s \in SessionIds \cup {None} : Start(q, s, MaxLiveAsks)
    \/ AskStep

\* every external call eventually returns or fails: the ask in progress is
\* not left waiting forever
SpecLive == Init /\ [][NextLive]_vars /\ WF_vars(AskStep)

----------------------------------------------------------------------------
(* SessionMemory called directly *)

MemorySessionIds == {"s1", "s2"}
MemoryQuestions == {QRegion, QFollowUp}


\* the number of add_turn calls so far
AddTurnCalls == TotalLen(added, DOMAIN added)

\* memory.add_turn(sid, q, a, sql)
AddTurnCall(sid, q, a, sql) ==
    /\ AddTurnCalls < MaxAddTurns
    /\ sessions' = add_turn(sessions, max_turns, sid, q, a, sql, AddTurnCalls + 1)
    /\ added' = Logged(added, sid, ConversationTurn(q, a, sql, AddTurnCalls + 1, sid))
    /\ UNCHANGED <<configVars, lookupVars, schemaVars, cache, askVars, biVars, threadVars>>

InitMemory ==
    /\ InitLookup({NoThreshold})
    /\ InitSchema
    /\ max_turns \in 1..MaxTurns
    /\ InitAsk
    /\ InitThreads
    /\ InitBI

NextMemory ==
    \E sid \in MemorySessionIds, q \in MemoryQuestions :
        AddTurnCall(sid, q, "answer to " \o q, "SELECT ... /* " \o q \o " */")

SpecMemory == InitMemory /\ [][NextMemory]_vars

----------------------------------------------------------------------------
(* SessionMemory with its default max_turns, for the context summary *)

\* max_turns_per_session defaults to 10
DefaultMaxTurns == 10

Digits == "0123456789"
\* an answer of 2 characters and one of 160
ShortAnswer == "ok"
LongAnswer ==
    Digits \o Digits \o Digits \o Digits \o Digits \o Digits \o Digits \o Digits
    \o Digits \o Digits \o Digits \o Digits \o Digits \o Digits \o Digits \o Digits

ContextAnswers == {ShortAnswer, LongAnswer}

\* memory.add_turn("s1", QRegion, a, sql), up to MaxContextTurns times
ContextTurnCall(a) ==
    /\ AddTurnCalls < MaxContextTurns
    /\ sessions' = add_turn(sessions, max_turns, "s1", QRegion, a,
                            "SELECT " \o ToString(AddTurnCalls + 1), AddTurnCalls + 1)
    /\ added' = Logged(added, "s1",
                       ConversationTurn(QRegion, a, "SELECT " \o ToString(AddTurnCalls + 1),
                                        AddTurnCalls + 1, "s1"))
    /\ UNCHANGED <<configVars, lookupVars, schemaVars, cache, askVars, biVars, threadVars>>

InitContext ==
    /\ InitLookup({NoThreshold})
    /\ InitSchema
    /\ max_turns = DefaultMaxTurns
    /\ InitAsk
    /\ InitThreads
    /\ InitBI

NextContext == \E a \in ContextAnswers : ContextTurnCall(a)

SpecContext == InitContext /\ [][NextContext]_vars

----------------------------------------------------------------------------
(* BusinessIntelligence called directly *)

\* what the embedding model may return for a query and for a concept text
QueryVectors == {<<0, 0>>, <<5, 0>>, <<0, 5>>, <<4, 3>>, <<3, 4>>, <<-5, 0>>}
ConceptVectors == {<<1, 0>>, <<0, 1>>}

\* bi.find_relevant_concept(query), the model embedding the query as emb
FindConceptCall(query, emb) ==
    /\ bi_query' = query
    /\ bi_query_embedding' = emb
    /\ bi_result' = find_relevant_concept(query, emb, concept_embeddings)
    /\ calls' = ConceptLookupCalls(query)
    /\ UNCHANGED <<configVars, lookupVars, schemaVars, cache, memoryVars, pc, question, session_id,
                   validation, sql_query, results, insights, response, steps,
                   unanswerable, asks, asked, faults, concept_embeddings,
                   threadVars>>

InitConcepts ==
    /\ InitLookup({NoThreshold})
    /\ InitSchema
    /\ max_turns = MaxTurns
    /\ InitAsk
    /\ InitThreads
    /\ bi_query = ""
    /\ bi_query_embedding = <<0, 0>>
    /\ bi_result = 0
    /\ concept_embeddings \in [NaturalTerms -> ConceptVectors]

NextConcepts ==
    \E query \in BIQueries, emb \in QueryVectors : FindConceptCall(query, emb)

SpecConcepts == InitConcepts /\ [][NextConcepts]_vars

----------------------------------------------------------------------------
(* Concurrent requests: app.run(threaded=True) serves each request on its  *)
(* own thread, all threads calling ask on the one chatbot, without a lock. *)
(* A thread can be preempted between any two statements; each action below *)
(* is one statement of the code (the trimming assignment of add_turn is    *)
(* two: the slice is taken, then assigned).                                *)

ThreadSessionIds == {"s1", "s2"}
ThreadQuestions == {QRegion, QControl, QHola}

\* the response a request for question q builds when nothing fails
ThreadResponse(q) ==
    LET query == ParsedReply("data", q)
        rows  == QueryRows(query.sql)
    IN  BuildResponse(q, query, rows, ModelInsight(q, rows))

\* chat_message: a request arrives and its thread runs ask up to the cache
\* lookup; a hit returns at once, a miss goes on to the store
Arrive(t, q, s) ==
    /\ threads[t].pc = "idle"
    /\ arrivals < MaxRequests
    /\ arrivals' = arrivals + 1
    /\ cache' = CacheAfterLookup(cache, Encode(q), similarity_threshold)
    /\ threads' = [threads EXCEPT ![t] =
          IF get_similar_query(cache, Encode(q), similarity_threshold) # 0
          THEN IdleThread
          ELSE [pc |-> "store", sid |-> s, q |-> q, req |-> arrivals', kept |-> <<>>]]
    /\ UNCHANGED <<configVars, lookupVars, schemaVars, memoryVars, askVars, biVars, written>>

\* line 691: self.cache[key] = CacheEntry(...)
ThreadStore(t) ==
    /\ threads[t].pc = "store"
    /\ LET q == threads[t].q
           sql == ParsedReply("data", q).sql
       IN  /\ cache' = store_query(cache, q, Encode(q), sql, ThreadResponse(q),
                                   threads[t].req)
           /\ written' = written \cup
                 {CacheEntry(_get_query_key(q), Encode(q), sql, ThreadResponse(q),
                             threads[t].req)}
    /\ threads' = [threads EXCEPT ![t].pc = "add_turn_check"]
    /\ UNCHANGED <<configVars, lookupVars, schemaVars, memoryVars, askVars, biVars, arrivals>>

\* line 72: if session_id not in self.sessions
AddTurnCheck(t) ==
    /\ threads[t].pc = "add_turn_check"
    /\ threads' = [threads EXCEPT ![t].pc =
          IF threads[t].sid \notin DOMAIN sessions
          THEN "add_turn_create" ELSE "add_turn_append"]
    /\ UNCHANGED <<configVars, lookupVars, schemaVars, cache, memoryVars, askVars, biVars, arrivals, written>>

\* line 73: self.sessions[session_id] = []
AddTurnCreate(t) ==
    /\ threads[t].pc = "add_turn_create"
    /\ sessions' = [s \in DOMAIN sessions \cup {threads[t].sid} |->
                       IF s = threads[t].sid THEN <<>> ELSE sessions[s]]
    /\ threads' = [threads EXCEPT ![t].pc = "add_turn_append"]
    /\ UNCHANGED <<configVars, lookupVars, schemaVars, cache, added, askVars, biVars, arrivals, written>>

\* the turn of the request thread t serves, stamped with its arrival number
ThreadTurn(t) ==
    ConversationTurn(threads[t].q, ThreadResponse(threads[t].q).answer,
                     ParsedReply("data", threads[t].q).sql, threads[t].req,
                     threads[t].sid)

\* lines 75-83: self.sessions[session_id].append(turn)
AddTurnAppend(t) ==
    /\ threads[t].pc = "add_turn_append"
    /\ sessions' = [sessions EXCEPT ![threads[t].sid] = Append(@, ThreadTurn(t))]
    /\ added' = Logged(added, threads[t].sid, ThreadTurn(t))
    /\ threads' = [threads EXCEPT ![t].pc = "add_turn_len"]
    /\ UNCHANGED <<configVars, lookupVars, schemaVars, cache, askVars, biVars, arrivals, written>>

\* line 86: if len(self.sessions[session_id]) > self.max_turns
AddTurnLen(t) ==
    /\ threads[t].pc = "add_turn_len"
    /\ threads' = [threads EXCEPT ![t] =
          IF Len(sessions[threads[t].sid]) > max_turns
          THEN [@ EXCEPT !.pc = "add_turn_slice"]
          ELSE IdleThread]
    /\ UNCHANGED <<configVars, lookupVars, schemaVars, cache, memoryVars, askVars, biVars, arrivals, written>>

\* line 87, right-hand side: self.sessions[session_id][-self.max_turns:]
AddTurnSlice(t) ==
    /\ threads[t].pc = "add_turn_slice"
    /\ threads' = [threads EXCEPT ![t].kept = LastN(sessions[threads[t].sid], max_turns),
                                  ![t].pc = "add_turn_assign"]
    /\ UNCHANGED <<configVars, lookupVars, schemaVars, cache, memoryVars, askVars, biVars, arrivals, written>>

\* line 87, the assignment; ask then returns
AddTurnAssign(t) ==
    /\ threads[t].pc = "add_turn_assign"
    /\ sessions' = [sessions EXCEPT ![threads[t].sid] = threads[t].kept]
    /\ threads' = [threads EXCEPT ![t] = IdleThread]
    /\ UNCHANGED <<configVars, lookupVars, schemaVars, cache, added, askVars, biVars, arrivals, written>>

InitThreaded ==
    /\ InitLookup({NoThreshold})
    /\ InitSchema
    /\ max_turns \in 1..MaxTurns
    /\ InitAsk
    /\ InitThreads
    /\ InitBI

NextThreaded ==
    \/ \E t \in Threads, q \in ThreadQuestions, s \in ThreadSessionIds : Arrive(t, q, s)
    \/ \E t \in Threads : ThreadStore(t)
    \/ \E t \in Threads : AddTurnCheck(t)
    \/ \E t \in Threads : AddTurnCreate(t)
    \/ \E t \in Threads : AddTurnAppend(t)
    \/ \E t \in Threads : AddTurnLen(t)
    \/ \E t \in Threads : AddTurnSlice(t)
    \/ \E t \in Threads : AddTurnAssign(t)

SpecThreaded == InitThreaded /\ [][NextThreaded]_vars

----------------------------------------------------------------------------
(* The cache lookup of a request, statement by statement, while other      *)
(* requests store. `for entry in self.cache.values()` creates an iterator  *)
(* that remembers the size of the dict; each fetch of the next entry, the  *)
(* last one that ends the loop included, raises RuntimeError ("dictionary  *)
(* changed size during iteration") when the dict has another size by then. *)

ScanSessionIds == {"s1"}

\* line 165-170: the request of thread t enters get_similar_query and the
\* loop creates its iterator
ScanStart(t, q, s) ==
    /\ threads[t].pc = "idle"
    /\ arrivals < MaxRequests
    /\ arrivals' = arrivals + 1
    /\ threads' = [threads EXCEPT ![t] =
          [pc |-> "scan", sid |-> s, q |-> q, req |-> arrivals', kept |-> <<>>,
           used |-> Len(cache), pos |-> 0, best_match |-> 0, best_similarity |-> Zero]]
    /\ UNCHANGED <<configVars, lookupVars, schemaVars, cache, memoryVars, askVars, biVars,
                   written>>

\* lines 172-179: the iterator yields the next entry and the body compares
\* it, or the iterator ends the loop, or it raises; best_match is kept as
\* the timestamp of the entry object (0 for None)
ScanNext(t) ==
    /\ threads[t].pc = "scan"
    /\ threads' = [threads EXCEPT ![t] =
          IF threads[t].used # Len(cache)
          THEN [@ EXCEPT !.pc = "raised"]
          ELSE IF threads[t].pos = Len(cache)
          THEN [@ EXCEPT !.pc = "scanned"]
          ELSE LET entry == cache[threads[t].pos + 1]
                   similarity == CosineSimilarity(Encode(threads[t].q),
                                                  entry.query_embedding)
               IN  IF /\ SimGreater(similarity, threads[t].best_similarity)
                      /\ SimGreater(similarity, similarity_threshold)
                   THEN [@ EXCEPT !.pos = @ + 1, !.best_match = entry.timestamp,
                                  !.best_similarity = similarity]
                   ELSE [@ EXCEPT !.pos = @ + 1]]
    /\ UNCHANGED <<configVars, lookupVars, schemaVars, cache, memoryVars, askVars, biVars,
                   arrivals, written>>

\* lines 181-184 and 646-656: a hit counts on the entry object found and
\* ask returns it; a miss goes on to the pipeline
ScanReturn(t) ==
    /\ threads[t].pc = "scanned"
    /\ cache' = [i \in 1..Len(cache) |->
                    IF threads[t].best_match # 0
                       /\ cache[i].timestamp = threads[t].best_match
                    THEN [cache[i] EXCEPT !.hit_count = @ + 1]
                    ELSE cache[i]]
    /\ threads' = [threads EXCEPT ![t] =
          IF threads[t].best_match # 0 THEN IdleThread
          ELSE [pc |-> "store", sid |-> threads[t].sid, q |-> threads[t].q,
                req |-> threads[t].req, kept |-> <<>>]]
    /\ UNCHANGED <<configVars, lookupVars, schemaVars, memoryVars, askVars, biVars,
                   arrivals, written>>

\* the RuntimeError leaves ask and chat_message answers with an error
\* (app.py lines 128-130)
ScanRaise(t) ==
    /\ threads[t].pc = "raised"
    /\ threads' = [threads EXCEPT ![t] = IdleThread]
    /\ UNCHANGED <<configVars, lookupVars, schemaVars, cache, memoryVars, askVars, biVars,
                   arrivals, written>>

\* line 691: self.cache.store_query(question, sql_query.sql, response)
ScanStore(t) ==
    /\ threads[t].pc = "store"
    /\ LET q == threads[t].q
           sql == ParsedReply("data", q).sql
       IN  /\ cache' = store_query(cache, q, Encode(q), sql, ThreadResponse(q),
                                   threads[t].req)
           /\ written' = written \cup
                 {CacheEntry(_get_query_key(q), Encode(q), sql, ThreadResponse(q),
                             threads[t].req)}
    /\ threads' = [threads EXCEPT ![t].pc = "add_turn"]
    /\ UNCHANGED <<configVars, lookupVars, schemaVars, memoryVars, askVars, biVars, arrivals>>

\* line 694: self.memory.add_turn(...); ask returns the response
ScanAddTurn(t) ==
    /\ threads[t].pc = "add_turn"
    /\ sessions' = add_turn(sessions, max_turns, threads[t].sid, threads[t].q,
                            ThreadResponse(threads[t].q).answer,
                            ParsedReply("data", threads[t].q).sql, threads[t].req)
    /\ added' = Logged(added, threads[t].sid, ThreadTurn(t))
    /\ threads' = [threads EXCEPT ![t] = IdleThread]
    /\ UNCHANGED <<configVars, lookupVars, schemaVars, cache, askVars, biVars, arrivals,
                   written>>

InitScan ==
    /\ InitLookup({NoThreshold})
    /\ InitSchema
    /\ max_turns = MaxTurns
    /\ InitAsk
    /\ InitThreads
    /\ InitBI

NextScan ==
    \/ \E t \in Threads, q \in ThreadQuestions, s \in ScanSessionIds : ScanStart(t, q, s)
    \/ \E t \in Threads : ScanNext(t)
    \/ \E t \in Threads : ScanReturn(t)
    \/ \E t \in Threads : ScanRaise(t)
    \/ \E t \in Threads : ScanStore(t)
    \/ \E t \in Threads : ScanAddTurn(t)

SpecScan == InitScan /\ [][NextScan]_vars

----------------------------------------------------------------------------
(* _analyze_schema run over databases of several shapes *)

\* the columns a table may have: text only, mixed, with a type that gets
\* neither samples nor statistics, numeric only
ColumnChoices ==
    { [c \in {"tipo_tienda"} |-> "VARCHAR"],
      [c \in {"region", "nombre"} |-> IF c = "region" THEN "TEXT" ELSE "VARCHAR"],
      DefaultTables["tiendas"],
      [c \in {"revenue", "fecha"} |-> IF c = "revenue" THEN "DOUBLE" ELSE "DATE"],
      [c \in {"usuarios", "conversion"} |-> IF c = "usuarios" THEN "BIGINT" ELSE "FLOAT"] }

\* schema = {} (line 362)
EmptySchema == [tables |-> << >>, categorical_samples |-> << >>, stats |-> << >>]

\* the <<table, column>> a statistics query is run for
StatsQueries(tables) ==
    {p \in (DOMAIN tables) \X {"revenue", "usuarios", "conversion"} :
        p[2] \in NumericColumns(tables[p[1]])}

\* self.schema_info = self._analyze_schema(), the statistics queries of
\* failing raising
AnalyzeSchema(failing) ==
    /\ DOMAIN schema_info.tables = {}
    /\ stats_failed' = failing
    /\ schema_info' = _analyze_schema(db_tables, failing)
    /\ UNCHANGED <<configVars, lookupVars, db_tables, cache, memoryVars, askVars,
                   biVars, threadVars>>

InitAnalysis ==
    /\ InitLookup({NoThreshold})
    /\ \E names \in {{"tiendas"}, {"tiendas", "maestro_tiendas"}} :
          db_tables \in [names -> ColumnChoices]
    /\ stats_failed = {}
    /\ schema_info = EmptySchema
    /\ max_turns = MaxTurns
    /\ InitAsk
    /\ InitThreads
    /\ InitBI

NextAnalysis == \E failing \in SUBSET StatsQueries(db_tables) : AnalyzeSchema(failing)

SpecSchema == InitAnalysis /\ [][NextAnalysis]_vars

----------------------------------------------------------------------------
(* SemanticCache called directly *)

\* the similarity_threshold arguments a SemanticCache is constructed with
ThresholdArgs ==
    {NoThreshold, Rational(0, 1), Rational(-1, 2), Rational(3, 5)}

\* the queries stored and looked up; QBlank embeds as the zero vector
CacheQueries == {QRegion, QRegionCaps, QControl, QUsers, QHola, QBlank, QTie}

\* cache.store_query(query, sql, results); every entry is created at time 1,
\* the clock standing still in this specification
CacheStoreCall(query) ==
    /\ \/ Len(cache) < MaxCacheEntries
       \/ \E i \in 1..Len(cache) : cache[i].key = _get_query_key(query)
    /\ cache' = store_query(cache, query, Encode(query), "SELECT " \o query,
                            [answer |-> query, sql_executed |-> TRUE], 1)
    /\ written' = written \cup
          {CacheEntry(_get_query_key(query), Encode(query), "SELECT " \o query,
                      [answer |-> query, sql_executed |-> TRUE], 1)}
    /\ UNCHANGED <<configVars, lookupVars, schemaVars, memoryVars, askVars, biVars,
                   threads, arrivals>>

\* cache.get_similar_query(query)
CacheLookupCall(query) ==
    /\ lookup.n < MaxLookups
    /\ lookup' = [n |-> lookup.n + 1, query |-> query,
                  returned |-> get_similar_query(cache, Encode(query),
                                                 similarity_threshold)]
    /\ cache' = CacheAfterLookup(cache, Encode(query), similarity_threshold)
    /\ UNCHANGED <<configVars, threshold_arg, reading, schemaVars, memoryVars, askVars,
                   biVars, threadVars>>

InitCache ==
    /\ InitLookup(ThresholdArgs)
    /\ InitSchema
    /\ max_turns = MaxTurns
    /\ InitAsk
    /\ InitThreads
    /\ InitBI

NextCache ==
    \/ \E query \in CacheQueries : CacheStoreCall(query)
    \/ \E query \in CacheQueries : CacheLookupCall(query)

SpecCache == InitCache /\ [][NextCache]_vars

----------------------------------------------------------------------------
(* The read operations of the memory and of the chatbot *)

MaxReads == 1
ReadSessionIds == MemorySessionIds

\* a read operation op of session sid returns
Read(op, sid, returned) ==
    /\ reading.n < MaxReads
    /\ reading' = [n |-> reading.n + 1, op |-> op, session_id |-> sid,
                   returned |-> returned]
    /\ UNCHANGED <<configVars, threshold_arg, lookup, schemaVars, added, askVars,
                   biVars, threadVars>>

\* memory.get_conversation_context(sid)
GetConversationContextCall(sid) ==
    /\ Read("get_conversation_context", sid, get_conversation_context(sessions, sid))
    /\ sessions' = SessionsRead(sessions, sid)
    /\ UNCHANGED cache

\* memory.validate_follow_up_question(sid, q)
ValidateFollowUpCall(sid, q) ==
    /\ Read("validate_follow_up_question", sid,
            validate_follow_up_question(sessions, sid, q))
    /\ sessions' = SessionsRead(sessions, sid)
    /\ UNCHANGED cache

\* memory.get_related_queries(sid)
GetRelatedQueriesCall(sid) ==
    /\ Read("get_related_queries", sid, get_related_queries(sessions, sid))
    /\ sessions' = SessionsRead(sessions, sid)
    /\ UNCHANGED cache

\* chatbot.get_session_history(sid)
GetSessionHistoryCall(sid) ==
    /\ Read("get_session_history", sid, get_session_history(sessions, sid))
    /\ sessions' = SessionsRead(sessions, sid)
    /\ UNCHANGED cache

\* chatbot.get_session_stats()
GetSessionStatsCall ==
    /\ Read("get_session_stats", "", get_session_stats(sessions))
    /\ UNCHANGED <<sessions, cache>>

\* chatbot.get_cache_stats()
GetCacheStatsCall ==
    /\ Read("get_cache_stats", "", get_cache_stats(cache))
    /\ UNCHANGED <<sessions, cache>>

NextReads ==
    \/ \E q \in MemoryQuestions :
          AddTurnCall("s1", q, "answer to " \o q, "SELECT ... /* " \o q \o " */")
    \/ CacheStoreCall(QRegion)
    \/ \E sid \in ReadSessionIds : GetConversationContextCall(sid)
    \/ \E sid \in ReadSessionIds, q \in MemoryQuestions : ValidateFollowUpCall(sid, q)
    \/ \E sid \in ReadSessionIds : GetRelatedQueriesCall(sid)
    \/ \E sid \in ReadSessionIds : GetSessionHistoryCall(sid)
    \/ GetSessionStatsCall
    \/ GetCacheStatsCall

SpecReads == InitMemory /\ [][NextReads]_vars

----------------------------------------------------------------------------
(* Properties *)

\* the similarity of the question asked to cache entry i
Sim(i) == CosineSimilarity(Encode(question), cache[i].query_embedding)

\* the entries whose similarity to the question is above the threshold
SimilarEntries ==
    {i \in 1..Len(cache) : SimGreater(Sim(i), similarity_threshold)}

\* the result carries the SQL, answer, data and insights of entry i
CarriesEntry(r, i) ==
    /\ r.sql_used = cache[i].sql_query
    /\ r.answer = cache[i].results.answer
    /\ r.data = cache[i].results.data
    /\ r.insights = cache[i].results.insights

InCalls(name) == \E k \in 1..Len(calls) : calls[k] = name
InSteps(name) == \E k \in 1..Len(steps) : steps[k] = name

C2_FollowUpGuard ==
    (pc = "done" /\ IsFollowUp(validation) /\ unanswerable) =>
        /\ "sql_executed" \in DOMAIN response
        /\ "confidence" \in DOMAIN response
        /\ response.sql_executed = FALSE
        /\ response.confidence <= 20
        /\ ~InCalls("engine")

\* C3: a session holds the last min(calls, max_turns) turns added to it, in
\* the order they were added
C3_Retention ==
    /\ DOMAIN sessions = DOMAIN added
    /\ \A s \in DOMAIN added :
          LET n == Len(added[s])
              k == IF n < max_turns THEN n ELSE max_turns
          IN  /\ Len(sessions[s]) = k
              /\ Len(sessions[s]) <= max_turns
              /\ \A i \in 1..k : sessions[s][i] = added[s][n - k + i]

\* a session that has dropped a turn and still holds more than one
C3_Witness ==
    \E s \in DOMAIN added :
        /\ Len(added[s]) > max_turns
        /\ max_turns >= 2
        /\ \E t \in DOMAIN added : t # s /\ Len(added[t]) >= 1

\* the entry whose content the result of the step carries
ReturnedEntry(i) ==
    /\ pc' = "done"
    /\ response'.sql_used = cache[i].sql_query
    /\ response'.answer = cache[i].results.answer

\* C4: a lookup adds 1 to the hit_count of the entry it returns and leaves
\* every other hit_count as it was; a lookup that returns none changes none
C4_HitCountStep ==
    [][pc = "cache_check" =>
          /\ Len(cache') = Len(cache)
          /\ \A i \in 1..Len(cache) :
                cache'[i].hit_count =
                    cache[i].hit_count + (IF ReturnedEntry(i) THEN 1 ELSE 0)]_vars

\* a hit with two entries above the threshold, one of them never returned
C4_Witness ==
    /\ pc = "done"
    /\ response.cached
    /\ \E i, j \in SimilarEntries :
          i # j /\ cache[i].hit_count >= 1 /\ cache[j].hit_count = 0

\* the similarity of each pair of questions
QuestionSimilarity ==
    [p \in Questions \X Questions |-> CosineSimilarity(Encode(p[1]), Encode(p[2]))]

Dissimilar(x, y) == ~SimGreater(QuestionSimilarity[<<x, y>>], similarity_threshold)

\* question a was asked three times, b and c once each, nothing else, and
\* the last call has returned
Scripted(a, b, c) ==
    /\ pc = "done"
    /\ asked = [q \in Questions |-> IF q = a THEN 3 ELSE IF q \in {b, c} THEN 1 ELSE 0]

MutuallyDissimilar(a, b, c) ==
    /\ a # b /\ a # c /\ b # c
    /\ Dissimilar(a, b) /\ Dissimilar(a, c) /\ Dissimilar(b, c)

\* C5: the hit rate is 100 * hits / (entries + hits), 0 for an empty cache;
\* after one question asked three times and two mutually dissimilar ones
\* asked once, the statistics are 3 entries, 2 hits, rate 40
C5_CacheStats ==
    LET stats == get_cache_stats(cache)
        rate  == stats.cache_hit_rate
    IN  /\ stats.total_cached_queries = Len(cache)
        /\ cache = <<>> => rate.num = 0
        /\ cache # <<>> =>
              rate.num * (stats.total_cached_queries + stats.total_cache_hits)
                  = 100 * stats.total_cache_hits * rate.den
        /\ pc = "done" =>
              \A a, b, c \in Questions :
                  (Scripted(a, b, c) /\ MutuallyDissimilar(a, b, c)) =>
                      /\ stats.total_cached_queries = 3
                      /\ stats.total_cache_hits = 2
                      /\ rate.num = 40 * rate.den

C5_Witness ==
    \E a, b, c \in Questions : Scripted(a, b, c) /\ MutuallyDissimilar(a, b, c)

\* the concepts one of whose keywords the query of the last call contains
KeywordConcepts ==
    {i \in 1..Len(concepts) :
        \E k \in 1..Len(concepts[i].context_keywords) :
            Contains(Lower(bi_query), concepts[i].context_keywords[k])}

\* C6: a query that contains a keyword gets a concept that has a keyword the
\* query contains, and the query is embedded only when it contains none
C6_KeywordPriority ==
    bi_query # "" =>
        /\ KeywordConcepts # {} => bi_result \in KeywordConcepts
        /\ InCalls("embedding") => KeywordConcepts = {}

\* a keyword match while the embedding phase would return another concept
C6_Witness ==
    /\ bi_query # ""
    /\ KeywordConcepts # {}
    /\ EmbeddingConcept(bi_query_embedding, concept_embeddings)
           \notin (KeywordConcepts \cup {0})

\* C7: the lookup step that finds an entry above the threshold ends the call
\* with the cached result, having called only the embedding model and having
\* stored no entry and no turn; nothing follows it but the next call
C7_HitGoesToDone ==
    [][/\ (pc = "cache_check" /\ pc' # "raised" /\ SimilarEntries # {}) =>
             /\ pc' = "done"
             /\ response'.cached
             /\ steps' = <<"cache_lookup">>
             /\ calls' = <<"embedding">>
             /\ Len(cache') = Len(cache)
             /\ sessions' = sessions
       /\ pc = "done" => pc' = "cache_check"]_vars

\* a call that returned from the cache
C7_Witness ==
    /\ pc = "done"
    /\ response.cached
    /\ steps = <<"cache_lookup">>
    /\ cache # <<>>

\* the steps of a call that misses, with and without execution
MissPath(middle) ==
    <<"cache_lookup", "generate_sql", middle, "insights", "store", "add_turn">>

IsPrefix(xs, ys) == Len(xs) <= Len(ys) /\ xs = SubSeq(ys, 1, Len(xs))

\* C8: the steps a call has taken are an initial part of lookup, generation,
\* execution or placeholder, insights, store, add_turn, and a call that
\* returns a result that is not cached has taken all of them
C8_MissPathOrder ==
    /\ \E middle \in {"execute", "skip_execute"} : IsPrefix(steps, MissPath(middle))
    /\ (pc = "done" /\ ~response.cached) =>
          \E middle \in {"execute", "skip_execute"} : steps = MissPath(middle)

C8_Witness ==
    /\ pc = "done"
    /\ ~response.cached
    /\ steps = MissPath("skip_execute")

\* C9 as stated: no call ends with an exception raised by the generation step
C9_NeverAbortsInGenerate ==
    ~(pc = "raised" /\ steps # <<>> /\ steps[Len(steps)] = "generate_sql")

\* C10: once the execution step of a miss is over, the engine was called
\* exactly when requires_execution is true, a query not executed has the
\* placeholder row as data, and sql_executed says whether the engine was called
C10_ExecutionFlag ==
    (pc \in {"insights", "store", "add_turn", "done"} /\ InSteps("generate_sql")) =>
        /\ InCalls("engine") <=> sql_query.requires_execution
        /\ ~sql_query.requires_execution =>
              results = << [message |-> "No SQL execution required",
                            type |-> "meta_response"] >>
        /\ pc # "insights" =>
              /\ response.sql_executed = InCalls("engine")
              /\ response.data = results
              /\ ~sql_query.requires_execution => response.sql_executed = FALSE

\* a returned result for a query that does not require execution
C10_Witness ==
    /\ pc = "done"
    /\ InSteps("generate_sql")
    /\ ~sql_query.requires_execution
    /\ ~InCalls("engine")
    /\ response.sql_executed = FALSE

\* the turn the call in progress adds to its session
TurnOfCall ==
    ConversationTurn(question, response.answer, sql_query.sql, asks, session_id)

\* the turns a session holds (none for a session not yet created)
TurnsOf(sess, sid) == IF sid \in DOMAIN sess THEN sess[sid] ELSE <<>>

\* C11: the store step of a miss writes one entry, under the key of the
\* question, holding the generated SQL and the response, and touches no
\* other entry; the add_turn step appends one turn of this call to the
\* session of the call and to no other; the steps before them write nothing
C11_PersistOnce ==
    [][/\ (pc = "store" /\ pc' # "raised") =>
             LET key == _get_query_key(question)
                 present == \E i \in 1..Len(cache) : cache[i].key = key
             IN  /\ pc' = "add_turn"
                 /\ Len(cache') = Len(cache) + (IF present THEN 0 ELSE 1)
                 /\ \A i \in 1..Len(cache) : cache[i].key # key => cache'[i] = cache[i]
                 /\ \E i \in 1..Len(cache') :
                       /\ cache'[i].key = key
                       /\ cache'[i].sql_query = sql_query.sql
                       /\ cache'[i].results = response
                       /\ \A j \in 1..Len(cache') : cache'[j].key = key => j = i
                 /\ sessions' = sessions
       /\ pc = "add_turn" =>
             LET before == TurnsOf(sessions, session_id)
                 after  == TurnsOf(sessions', session_id)
             IN  /\ pc' = "done"
                 /\ Len(after) = (IF Len(before) < max_turns
                                  THEN Len(before) + 1 ELSE max_turns)
                 /\ after[Len(after)] = TurnOfCall
                 /\ \A i \in 1..(Len(after) - 1) :
                       after[i] = before[Len(before) - (Len(after) - 1) + i]
                 /\ \A s \in DOMAIN sessions : s # session_id => sessions'[s] = sessions[s]
                 /\ Len(cache') = Len(cache)
       /\ pc \in {"generate_sql", "execute", "insights"} =>
             cache' = cache /\ sessions' = sessions]_vars

\* a completed miss whose execution was skipped, stored and remembered
C11_Witness ==
    /\ pc = "done"
    /\ InSteps("skip_execute")
    /\ \E i \in 1..Len(cache) :
          cache[i].key = _get_query_key(question) /\ cache[i].results = response
    /\ sessions[session_id][Len(sessions[session_id])].question = question
    /\ Len(cache) = 2

\* rows is the single row {error: text}
IsErrorRow(rows) == Len(rows) = 1 /\ DOMAIN rows[1] = {"error"}

ResultFields ==
    {"answer", "data", "sql_used", "sql_executed", "confidence", "cached",
     "execution_time", "insights", "session_id"}

\* C13 as stated: whatever fails, no call of ask ends by raising to its
\* caller, and a call that has ended has returned a result
C13_NeverRaises ==
    /\ pc # "raised"
    /\ pc = "done" => DOMAIN response # {}

\* C14 as stated: no call ends with an exception raised by the cache lookup;
\* a lookup in which the embedding fails goes on to SQL generation
C14_LookupFailureIsMiss ==
    ~(pc = "raised" /\ steps = <<"cache_lookup">>)

\* C15 as stated: a returned result has every specified field, and its
\* session_id is the one of the call
C15_ResultFields ==
    pc = "done" =>
        /\ ResultFields \subseteq DOMAIN response
        /\ response.session_id = session_id

\* C19 as stated: a call that has returned, from the cache or not, has left
\* as the newest turn of its session the turn of this call
C19_TurnPerAnswer ==
    pc = "done" =>
        /\ session_id \in DOMAIN sessions
        /\ sessions[session_id] # <<>>
        /\ LET turn == sessions[session_id][Len(sessions[session_id])]
           IN  /\ turn.question = question
               /\ turn.answer = response.answer
               /\ turn.sql_used = response.sql_used
               /\ turn.timestamp = asks

\* the memory holding the turns of session s and of no other
OnlySession(sess, s) == [x \in DOMAIN sess \cap {s} |-> sess[x]]

\* C18: a call of add_turn leaves the turns of every session it was not made
\* on as they were; every turn is stored under its own session_id; and for
\* each session the context summary and the follow-up detection are those of
\* a memory that holds this session only
C18_SessionsIndependent ==
    [][/\ \A s \in DOMAIN sessions :
             TurnsOf(added', s) = TurnsOf(added, s) => sessions'[s] = sessions[s]
       /\ \A s \in DOMAIN sessions' :
             \A i \in 1..Len(sessions'[s]) : sessions'[s][i].session_id = s
       /\ \A s \in MemorySessionIds :
             /\ get_conversation_context(sessions', s)
                   = get_conversation_context(OnlySession(sessions', s), s)
             /\ \A q \in MemoryQuestions :
                   validate_follow_up_question(sessions', s, q)
                       = validate_follow_up_question(OnlySession(sessions', s), s, q)]_vars

\* two sessions with turns, whose context summaries differ
C18_Witness ==
    \E s, t \in DOMAIN sessions :
        /\ s # t
        /\ sessions[s] # <<>> /\ sessions[t] # <<>>
        /\ get_conversation_context(sessions, s) # get_conversation_context(sessions, t)
        /\ validate_follow_up_question(sessions, s, QFollowUp)
              # validate_follow_up_question(sessions, t, QFollowUp)

\* d / sqrt(n) <= p / sqrt(m) for a positive p, or d / sqrt(n) is nan
AtOrBelow(sim, thr) ==
    sim.n = 0 \/ sim.d <= 0 \/ sim.d * sim.d * thr.n <= thr.d * thr.d * sim.n

\* d / sqrt(n) = p / sqrt(m) for a positive p
ExactlyAt(sim, thr) ==
    sim.n # 0 /\ sim.d > 0 /\ sim.d * sim.d * thr.n = thr.d * thr.d * sim.n

\* C20: a lookup that finds every entry at or below the (positive) threshold,
\* those exactly at it included, returns none: the cache is as it was, the
\* call goes on to SQL generation, and its result has cached = false
C20_EqualIsMiss ==
    [][/\ (pc = "cache_check" /\ pc' # "raised"
           /\ \A i \in 1..Len(cache) : AtOrBelow(Sim(i), similarity_threshold)) =>
             /\ pc' = "generate_sql"
             /\ cache' = cache
       /\ pc = "add_turn" => ~response'.cached]_vars

\* a returned miss for which the only other entry was exactly at the threshold
C20_Witness ==
    /\ pc = "done"
    /\ ~response.cached
    /\ asks = 2
    /\ Len(cache) = 2
    /\ \E i \in 1..Len(cache) :
          /\ cache[i].key # _get_query_key(question)
          /\ ExactlyAt(Sim(i), similarity_threshold)

\* no request is being served
Quiescent == \A t \in Threads : threads[t].pc = "idle"

\* the number of places of turn list xs that hold turn x
Occurrences(xs, x) == Cardinality({j \in 1..Len(xs) : xs[j] = x})

\* C16 as stated: once the calls in flight have completed, a session on
\* which n turns were appended holds min(n, max_turns) turns, each of the
\* most recent ones exactly once, and every cache entry is, up to its hit
\* count, an entry that a store call wrote
C16_NoLostWrite ==
    Quiescent =>
        /\ \A s \in DOMAIN added :
              LET n == Len(added[s])
                  k == IF n < max_turns THEN n ELSE max_turns
              IN  /\ s \in DOMAIN sessions
                  /\ Len(sessions[s]) = k
                  /\ \A i \in (n - k + 1)..n : Occurrences(sessions[s], added[s][i]) = 1
        /\ \A i \in 1..Len(cache) : [cache[i] EXCEPT !.hit_count = 0] \in written

\* C17 as stated: the turns a session holds are in the order in which their
\* requests arrived
C17_ArrivalOrder ==
    \A s \in DOMAIN sessions :
        \A i, j \in 1..Len(sessions[s]) :
            i < j => sessions[s][i].timestamp < sessions[s][j].timestamp

----------------------------------------------------------------------------
(* Properties of the cache called directly *)

\* the threshold the cache was configured with: the argument, or the default
\* when none was passed
ConfiguredThreshold ==
    IF threshold_arg = NoThreshold THEN DefaultThreshold ELSE threshold_arg

\* a direct lookup is made in this step
LookupStep == lookup'.n # lookup.n

\* the similarity the lookup of this step computes for entry i
LookupSim(i) == CosineSimilarity(Encode(lookup'.query), cache[i].query_embedding)

\* the entries strictly above the configured threshold
AboveConfigured ==
    {i \in 1..Len(cache) : SimGreater(LookupSim(i), ConfiguredThreshold)}

\* C21: whatever the cache holds and whatever threshold it was configured
\* with, a lookup returns the entry of highest similarity among those strictly
\* above the configured threshold, the first stored of them on a tie, and
\* nothing when no entry is above it.
C21_BestAboveConfigured ==
    [][LookupStep =>
         IF AboveConfigured = {}
         THEN lookup'.returned = 0
         ELSE /\ lookup'.returned \in AboveConfigured
              /\ \A j \in AboveConfigured :
                    /\ ~SimGreater(LookupSim(j), LookupSim(lookup'.returned))
                    /\ j < lookup'.returned =>
                          SimGreater(LookupSim(lookup'.returned), LookupSim(j))]_vars

\* the lookup of this step divides by a zero norm for entry i
DividesByZero(i) ==
    NormSq(Encode(lookup'.query)) * NormSq(cache[i].query_embedding) = 0

\* C22: a lookup whose question or whose entry has an embedding of zero
\* magnitude divides by no zero; that entry is a miss and the other entries
\* are compared as usual.
C22_NoDivisionByZero ==
    [][LookupStep =>
         /\ \A i \in 1..Len(cache) : ~DividesByZero(i)
         /\ \A i \in 1..Len(cache) : DividesByZero(i) => lookup'.returned # i
         /\ lookup'.returned =
               get_similar_query(
                   SelectSeq(cache, LAMBDA e :
                       NormSq(Encode(lookup'.query)) * NormSq(e.query_embedding) # 0),
                   Encode(lookup'.query), similarity_threshold)
               + Cardinality({i \in 1..Len(cache) :
                                /\ DividesByZero(i)
                                /\ i < lookup'.returned})]_vars

\* C23: a lookup, hit or miss, adds and removes no entry and leaves every
\* field of every entry as it was, but for the hit_count of the entry it
\* returns; a miss leaves the cache as it was.
C23_LookupFrame ==
    [][LookupStep =>
         /\ Len(cache') = Len(cache)
         /\ lookup'.returned = 0 => cache' = cache
         /\ \A i \in 1..Len(cache) :
               IF i = lookup'.returned
               THEN [cache'[i] EXCEPT !.hit_count = cache[i].hit_count] = cache[i]
               ELSE cache'[i] = cache[i]]_vars

\* a lookup has returned the second of two entries
C23_Witness ==
    /\ lookup.n > 0
    /\ lookup.returned = 2
    /\ cache[2].hit_count > 0
    /\ cache[2].timestamp = 1
    /\ cache[1].hit_count = 0

----------------------------------------------------------------------------
(* Properties of the follow-up detection, the insights and the concepts *)

\* the lowercased text contains a marker of the lexicon
HasMarker(q) ==
    \E k \in 1..Len(follow_up_keywords) : Contains(Lower(q), follow_up_keywords[k])

\* C24: in every session, a question is flagged as a follow-up exactly when
\* its lowercased text contains a marker of the lexicon, and the decision
\* makes no embedding call.
C24_MarkerDecides ==
    pc # "idle" =>
        /\ IsFollowUp(validation) <=> HasMarker(question)
        /\ pc = "cache_check" => calls = <<>>

\* C25: in every request that missed the cache, the insight step has called
\* the language model, and the insight is the model's or the neutral one.
C25_ModelAlwaysConsulted ==
    (pc \in {"store", "add_turn", "done"} /\ InSteps("insights")) =>
        /\ InCalls("llm_insight")
        /\ insights \in {ModelInsight(question, results),
                         DataInsight("Unable to generate insights", <<>>, <<>>, <<>>)}

\* C26: an insight step in which the call of the language model fails (the
\* step that counts a failure) returns the neutral insight, with the fixed
\* key finding and no metrics, recommendations or related questions; nothing
\* is raised, the response is built around it and the request goes on to the
\* store; from there it ends raised only by a further failure.
C26_InsightFailureIsNeutral ==
    [][/\ (pc = "insights" /\ faults' > faults) =>
             /\ insights' = DataInsight("Unable to generate insights", <<>>, <<>>, <<>>)
             /\ calls' = Append(calls, "llm_insight")
             /\ response'.insights = insights'
             /\ pc' = "store"
       /\ (pc \in {"store", "add_turn"} /\ pc' = "raised") => faults' > faults
       /\ pc = "add_turn" => pc' = "done"]_vars

\* a request whose insight call failed is done, stored and remembered
C26_Witness ==
    /\ pc = "done"
    /\ InCalls("llm_insight")
    /\ faults = 1
    /\ response.insights.key_finding = "Unable to generate insights"
    /\ response.insights.recommendations = <<>>
    /\ \E i \in 1..Len(cache) : cache[i].key = _get_query_key(question)
    /\ session_id \in DOMAIN sessions

\* the SQL patterns of the business concepts
SqlPatterns == {concepts[i].sql_pattern : i \in 1..Len(concepts)}

\* C27: in every request that missed the cache, whether or not a concept
\* matched the question, the language model was called for the SQL, and the
\* SQL executed and reported as sql_used is the one the generation step
\* returned, which is never a concept's sql_pattern.
C27_ConceptIsAdvisory ==
    (pc \in {"execute", "insights", "store", "add_turn", "done"}
        /\ InSteps("generate_sql")) =>
        /\ InCalls("llm_sql")
        /\ sql_query.sql \notin SqlPatterns
        /\ (InCalls("engine") /\ ~IsErrorRow(results)) =>
              results = << [row |-> "result of " \o sql_query.sql] >>
        /\ pc \in {"store", "add_turn", "done"} => response.sql_used = sql_query.sql

\* a request whose question matched a concept by keyword is done
C27_Witness ==
    /\ pc = "done"
    /\ InSteps("generate_sql")
    /\ KeywordConcept(question) # 0
    /\ InCalls("llm_sql")
    /\ InCalls("engine")
    /\ response.sql_used \notin SqlPatterns

\* C30: a request made without a session id leaves the session memory as it
\* was: it creates no session and adds no turn.
C30_NoSessionIdNoMemory ==
    [][session_id \notin SessionIds => sessions' = sessions]_vars

\* the similarity of the query's embedding to that of concept i
ConceptSim(i) ==
    CosineSimilarity(bi_query_embedding, concept_embeddings[concepts[i].natural_term])

\* the concepts whose similarity to the query is strictly above 0.6
SimilarConcepts ==
    {i \in 1..Len(concepts) : SimGreater(ConceptSim(i), [d |-> 3, n |-> 25])}

\* the two-phase reference: the first declared concept with a keyword in the
\* lowercased query; failing that, the concept of highest similarity above
\* 0.6, the first declared of them on a tie; failing that, none (0)
TwoPhaseReference ==
    IF KeywordConcepts # {}
    THEN CHOOSE i \in KeywordConcepts : \A j \in KeywordConcepts : i <= j
    ELSE IF SimilarConcepts = {} THEN 0
    ELSE CHOOSE i \in SimilarConcepts :
            \A j \in SimilarConcepts :
                /\ ~SimGreater(ConceptSim(j), ConceptSim(i))
                /\ j < i => SimGreater(ConceptSim(i), ConceptSim(j))

Preview(a) == IF Len(a) <= 150 THEN a ELSE SubSeq(a, 1, 150)

RECURSIVE RecentBlocks(_, _, _)
\* the text of the last k turns, numbered from j on, oldest first
RecentBlocks(turns, k, j) ==
    IF j > k THEN ""
    ELSE LET turn == turns[Len(turns) - k + j]
         IN  "Turn " \o ToString(j) \o ":\n  User asked: " \o turn.question
             \o "\n  Response summary: " \o Preview(turn.answer)
             \o "...\n  SQL executed: " \o turn.sql_used \o "\n\n"
             \o RecentBlocks(turns, k, j + 1)

\* C29: the context summary of a session renders its 5 most recent turns
\* (all of them when it has fewer), oldest first, each answer cut to its
\* first 150 characters, and nothing of an older turn; for a session without
\* turns or an unknown session id it is the empty text.
C29_ContextSummary ==
    \A sid \in {"s1", "s2"} :
        LET turns == TurnsOf(sessions, sid)
            k == IF Len(turns) < 5 THEN Len(turns) ELSE 5
            summary == get_conversation_context(sessions, sid)
        IN  IF turns = <<>>
            THEN summary = ""
            ELSE /\ summary =
                      "CONVERSATION HISTORY (Previous questions in this session):\n"
                      \o RecentBlocks(turns, k, 1)
                      \o "IMPORTANT: Only reference information that was actually mentioned in previous questions."
                 /\ \A i \in 1..(Len(turns) - 5) :
                       ~Contains(summary, "SQL executed: " \o turns[i].sql_used \o "\n")
                 /\ ~Contains(summary, SubSeq(LongAnswer, 1, 151))

\* a session of more than 5 turns whose recent answers are a long and a
\* short one, and whose oldest answer is long
C29_Witness ==
    /\ "s1" \in DOMAIN sessions
    /\ Len(sessions["s1"]) > 5
    /\ sessions["s1"][1].answer = LongAnswer
    /\ sessions["s1"][Len(sessions["s1"])].answer = LongAnswer
    /\ sessions["s1"][Len(sessions["s1"]) - 1].answer = ShortAnswer
    /\ Contains(get_conversation_context(sessions, "s1"), "Turn 5:")

----------------------------------------------------------------------------
(* Properties of the schema analysis *)

----------------------------------------------------------------------------
(* Properties of the cache and the sessions across requests *)

\* C32: no step lowers the hit_count of a cache entry or the
\* total_cache_hits that get_cache_stats reports.
C32_HitsNeverDecrease ==
    [][/\ Len(cache') >= Len(cache)
       /\ \A i \in 1..Len(cache) :
             /\ cache'[i].key = cache[i].key
             /\ cache'[i].hit_count >= cache[i].hit_count
       /\ get_cache_stats(cache').total_cache_hits
             >= get_cache_stats(cache).total_cache_hits]_vars

\* C33: a result served to a session depends on that session's own
\* requests only: a result with cached = true answers a question that is
\* similar, above the threshold, to one this session asked before.
C33_OwnHistoryOnly ==
    (pc = "done" /\ response.cached) =>
        \E k \in 1..Len(TurnsOf(added, session_id)) :
            SimGreater(CosineSimilarity(Encode(question),
                                        Encode(TurnsOf(added, session_id)[k].question)),
                       similarity_threshold)

\* the generation step fell back to its default
FellBack ==
    /\ InSteps("generate_sql")
    /\ sql_query.sql = "SELECT * FROM tiendas LIMIT 10"
    /\ sql_query.business_context = "Unable to generate proper query"

C35_CachedFlagsDelivered ==
    (pc = "done" /\ response.cached) =>
        \E i \in 1..Len(cache) :
            /\ CarriesEntry(response, i)
            /\ chat_message(response, session_id).sql_executed
                  = cache[i].results.sql_executed
            /\ chat_message(response, session_id).confidence
                  = cache[i].results.confidence

\* the normalized text of the question an entry was stored for
Normalized(e) == Strip(Lower(e.results.answer))

\* C36: the cache holds one entry for each distinct normalized (lowercased
\* and trimmed) text among the questions stored so far, no two entries for
\* the same normalized text, and so never more entries than such texts and
\* never fewer than before.
C36_OneEntryPerText ==
    /\ \A i, j \in 1..Len(cache) : Normalized(cache[i]) = Normalized(cache[j]) => i = j
    /\ Len(cache) = Cardinality({Normalized(e) : e \in written})
    /\ \A e \in written : \E i \in 1..Len(cache) : Normalized(cache[i]) = Normalized(e)

\* a question was stored in two spellings and the cache holds one entry, the
\* later one
C36_Witness ==
    /\ Len(cache) = 1
    /\ Cardinality(written) = 2
    /\ cache[1].results.answer = "  Revenue POR Region "
    /\ \E e \in written : e.results.answer = "revenue por region"

\* C37: a read operation (get_conversation_context,
\* validate_follow_up_question, get_related_queries, get_session_history,
\* get_session_stats, get_cache_stats) leaves the sessions and the cache as
\* they were; a session id that was unknown before the read is unknown after it.
C37_ReadsChangeNothing ==
    [][reading'.n # reading.n =>
          /\ sessions' = sessions
          /\ cache' = cache
          /\ DOMAIN sessions' = DOMAIN sessions]_vars

\* a session exists, and a session id that was never written has been read
C37_Witness ==
    /\ reading.n > 0
    /\ reading.op \in {"get_conversation_context", "validate_follow_up_question",
                       "get_related_queries", "get_session_history"}
    /\ reading.session_id \notin DOMAIN sessions
    /\ DOMAIN sessions # {}
    /\ Len(cache) > 0

\* C38: a cache lookup that runs while another request stores a new entry
\* completes: no request ends in the error raised when the cache changes
\* while it is being scanned.
C38_ScanCompletes == \A t \in Threads : threads[t].pc # "raised"

\* no step name occurs twice among the steps of the current ask
NoStepTwice == \A i, j \in 1..Len(steps) : steps[i] = steps[j] => i = j

\* C39: when every external call eventually returns or fails, an ask that
\* has started eventually returns a result (done) or an error (raised) to
\* its caller, and it takes no step twice on the way.
C39_AskTerminates ==
    /\ [](pc = "cache_check" => <>(pc \in {"done", "raised"}))
    /\ []NoStepTwice

\* an ask has returned after the whole pipeline although an external call
\* failed on the way
C39_Witness ==
    /\ pc = "done"
    /\ steps = <<"cache_lookup", "generate_sql", "execute", "insights", "store", "add_turn">>
    /\ faults > 0

====
